---------------------------- MODULE Spec2Model ----------------------------
(***************************************************************************)
(* Transaction categorizer: rules first, then the classifier, then the     *)
(* UNKNOWN fallback (app/model.py), with the rule table and normalizer of  *)
(* app/rules.py and the classifier adapter of app/ml_model.py.             *)
(*                                                                         *)
(* A Python str is a sequence of one-character strings.  An Optional       *)
(* value is a sequence of length at most one: None is <<>>, a present      *)
(* value v is <<v>>, so that the empty string and None stay distinct.      *)
(***************************************************************************)
EXTENDS Integers, Sequences

VARIABLES
  pc,            \* position of the process: boot, idle, or inside a request
  _ml,           \* model.py global _ml: "None" or "TxModel"
  pipeline,      \* TxModel.pipeline of the object built at line 10
  loadAttempts,  \* number of times TxModel.load has been entered
  startup,       \* what the load at startup left behind
  served,        \* requests that have returned or raised so far
  tx,            \* the request's transaction dict
  rule_result,   \* model.py local rule_result
  X,             \* ml_model.py local X, the feature row
  label,         \* ml_model.py local label, the classifier's answer
  proba,         \* the largest class probability, when the classifier gives one
  pred,          \* model.py local pred
  result,        \* the value predict_transaction returned
  ruleLookups,   \* calls of predict_by_rules within the current request
  mlCalls,       \* calls of _ml.predict within the current request
  fn, arg, ret, returned   \* a single call of one pure function

vars == <<pc, _ml, pipeline, loadAttempts, startup, served, tx, rule_result,
          X, label, proba, pred, result, ruleLookups, mlCalls,
          fn, arg, ret, returned>>

appVars == <<pc, _ml, pipeline, loadAttempts, startup, served, tx,
             rule_result, X, label, proba, pred, result, ruleLookups, mlCalls>>

\* the locals of one request
requestVars == <<tx, rule_result, X, label, proba, pred, result,
                 ruleLookups, mlCalls>>

callVars == <<fn, arg, ret, returned>>

----------------------------------------------------------------------------
(* Bounds *)

\* longest run of whitespace put between the words of a description
MaxGap == 2

\* longest amount text enumerated character by character
MaxAmountLen == 3

\* longest classifier label enumerated character by character
MaxLabelLen == 6

\* requests served in one run of the process
MaxRequests == 2

\* longest text given to normalize_description character by character
MaxTextLen == 4

----------------------------------------------------------------------------
(* Optional values and strings *)

None == <<>>

Some(v) == <<v>>

IsNone(o) == o = <<>>

Get(o) == o[1]

\* all sequences over alphabet of length at most n
RECURSIVE SeqsUpTo(_, _)
SeqsUpTo(alphabet, n) ==
  IF n = 0 THEN {<<>>}
  ELSE LET shorter == SeqsUpTo(alphabet, n - 1)
       IN  shorter \cup {Append(s, c) : s \in shorter, c \in alphabet}

LowerLetters ==
  <<"a","b","c","d","e","f","g","h","i","j","k","l","m","n","o","p","q","r",
    "s","t","u","v","w","x","y","z","à","é">>

UpperLetters ==
  <<"A","B","C","D","E","F","G","H","I","J","K","L","M","N","O","P","Q","R",
    "S","T","U","V","W","X","Y","Z","À","É">>

AsciiUpper == {UpperLetters[i] : i \in 1..26}

\* lowercase letters without an uppercase form: the masculine ordinal
\* indicator of "N.º 5" here, U+0138 kra and some 970 more in Unicode;
\* str.islower holds for them and str.upper leaves them as they are
CaselessLower == {"º"}

Digits == {"0","1","2","3","4","5","6","7","8","9"}

\* the whitespace characters of the model; Python's str.strip and \s take
\* these and the other Unicode whitespace
Whitespace == {" ", "\t", "\n"}

IsSpace(c) == c \in Whitespace

\* \w of a str pattern: alphanumerics and the underscore
IsWordChar(c) ==
  \/ c \in Digits
  \/ c = "_"
  \/ c \in CaselessLower
  \/ \E i \in 1..Len(LowerLetters) : c = LowerLetters[i] \/ c = UpperLetters[i]

\* str.upper on one character
UpperChar(c) ==
  IF \E i \in 1..Len(LowerLetters) : c = LowerLetters[i]
  THEN UpperLetters[CHOOSE i \in 1..Len(LowerLetters) : c = LowerLetters[i]]
  ELSE c

\* str.lower on one character
LowerChar(c) ==
  IF \E i \in 1..Len(UpperLetters) : c = UpperLetters[i]
  THEN LowerLetters[CHOOSE i \in 1..Len(UpperLetters) : c = UpperLetters[i]]
  ELSE c

upper(s) == [i \in 1..Len(s) |-> UpperChar(s[i])]

lower(s) == [i \in 1..Len(s) |-> LowerChar(s[i])]

RECURSIVE lstrip(_)
lstrip(s) == IF s # <<>> /\ IsSpace(Head(s)) THEN lstrip(Tail(s)) ELSE s

RECURSIVE rstrip(_)
rstrip(s) ==
  IF s # <<>> /\ IsSpace(s[Len(s)]) THEN rstrip(SubSeq(s, 1, Len(s) - 1)) ELSE s

strip(s) == rstrip(lstrip(s))

\* every whitespace character becomes a space, runs are not collapsed
sub_ws_each(s) == [i \in 1..Len(s) |-> IF IsSpace(s[i]) THEN " " ELSE s[i]]

\* re.sub(r"\s+", " ", s): every maximal run of whitespace becomes one space
RECURSIVE sub_ws(_)
sub_ws(s) ==
  IF s = <<>> THEN <<>>
  ELSE IF IsSpace(Head(s)) THEN <<" ">> \o sub_ws(lstrip(Tail(s)))
  ELSE <<Head(s)>> \o sub_ws(Tail(s))

----------------------------------------------------------------------------
(* app/rules.py *)

\* text is an Optional str
normalize_description(text) ==
  IF IsNone(text) THEN <<>>
  ELSE sub_ws(upper(strip(Get(text))))

\* A pattern of the table is  head lit tail  where lit is literal text,
\*   head is  "search" (nothing), "bol_ws" (^\s*) or "wb" (\b),
\*   tail is  "none" (nothing), "ws_eol" (\s*$), "wb_rest" (\b.*) or
\*            "alnum1" ([A-Z0-9]+).

\* \b at position i: between d[i-1] and d[i]
WordBoundaryAt(d, i) ==
  LET before == i > 1 /\ IsWordChar(d[i - 1])
      after  == i <= Len(d) /\ IsWordChar(d[i])
  IN  before # after

LitAt(lit, d, j) ==
  /\ j + Len(lit) - 1 <= Len(d)
  /\ \A k \in 1..Len(lit) : d[j + k - 1] = lit[k]

\* whether tail matches from position j on
TailAt(tail, d, j) ==
  CASE tail = "none"    -> TRUE
    [] tail = "ws_eol"  -> \A k \in j..Len(d) : IsSpace(d[k])
    [] tail = "wb_rest" -> WordBoundaryAt(d, j)
    [] tail = "alnum1"  -> j <= Len(d) /\ d[j] \in AsciiUpper \cup Digits

\* whether head matches between the start i of the match and the start j of lit
HeadAt(head, d, i, j) ==
  CASE head = "search" -> i = j
    [] head = "wb"     -> i = j /\ WordBoundaryAt(d, i)
    [] head = "bol_ws" -> i = 1 /\ \A k \in 1..j - 1 : IsSpace(d[k])

\* rule.pattern.search(d): lit can only start where it still fits into d
Search(pattern, d) ==
  \E j \in 1..Len(d) - Len(pattern.lit) + 1 :
    /\ LitAt(pattern.lit, d, j)
    /\ TailAt(pattern.tail, d, j + Len(pattern.lit))
    /\ \E i \in 1..j : HeadAt(pattern.head, d, i, j)

RULES ==
  <<
    [id |-> <<"R","0","0","1">>, pattern |-> [head |-> "bol_ws", lit |-> <<"P","A","S","S">>, tail |-> "ws_eol"],
     category |-> <<"C","H","A","R","G","E","S","_","V","A","R","I","A","B","L","E","S">>, subcategory |-> <<"T","R","A","N","S","P","O","R","T","S","_","C","O","M","M","U","N">>],
    [id |-> <<"R","0","0","2">>, pattern |-> [head |-> "bol_ws", lit |-> <<"T","O","T","A","L">>, tail |-> "wb_rest"],
     category |-> <<"C","H","A","R","G","E","S","_","V","A","R","I","A","B","L","E","S">>, subcategory |-> <<"C","A","R","B","U","R","A","N","T">>],
    [id |-> <<"R","0","0","3">>, pattern |-> [head |-> "search", lit |-> <<"I","n","c","o","m","i","n","g"," ","t","r","a","n","s","f","e","r"," ","f","r","o","m"," ","M"," ","P","A","U","L"," ","D","E","N","H","E","Z"," ","(","F","R","7","6","1","6","2","7","5","5","0","0","0","0","0","4","1","2","6","6","4","2","7","0","8","3","1",")">>, tail |-> "none"],
     category |-> <<"D","I","V","E","R","S">>, subcategory |-> <<"A","J","U","S","T","E","M","E","N","T","S","_","E","R","R","E","U","R","S">>],
    [id |-> <<"R","0","0","4">>, pattern |-> [head |-> "search", lit |-> <<"P","a","i","e","m","e","n","t"," ","a","c","c","e","p","t","é",":"," ","F","R","7","6","1","6","2","7","5","5","0","0","0","0","0","4","1","2","6","6","4","2","7","0","8","3","1"," ","à"," ","D","E","7","4","5","0","2","1","0","9","0","0","7","0","2","0","6","2","3","6","9","6">>, tail |-> "none"],
     category |-> <<"D","I","V","E","R","S">>, subcategory |-> <<"A","J","U","S","T","E","M","E","N","T","S","_","E","R","R","E","U","R","S">>],
    [id |-> <<"R","0","0","5">>, pattern |-> [head |-> "wb", lit |-> <<"A","M","A","Z","O","N",".","F","R","*">>, tail |-> "alnum1"],
     category |-> <<"A","C","H","A","T","S">>, subcategory |-> <<"D","I","V","E","R","S">>],
    [id |-> <<"R","0","0","6">>, pattern |-> [head |-> "search", lit |-> <<"I","n","c","o","m","i","n","g"," ","t","r","a","n","s","f","e","r"," ","f","r","o","m"," ","P","a","u","l"," ","D","e","n","h","e","z"," ","(","F","R","8","0","2","0","4","3","3","0","2","6","2","6","N","2","6","9","7","9","3","4","7","6","6","1","1",")">>, tail |-> "none"],
     category |-> <<"D","I","V","E","R","S">>, subcategory |-> <<"A","J","U","S","T","E","M","E","N","T","S","_","E","R","R","E","U","R","S">>],
    [id |-> <<"R","0","0","7">>, pattern |-> [head |-> "search", lit |-> <<"I","n","c","o","m","i","n","g"," ","t","r","a","n","s","f","e","r"," ","f","r","o","m"," ","M"," ","P","A","U","L"," ","D","E","N","H","E","Z">>, tail |-> "none"],
     category |-> <<"D","I","V","E","R","S">>, subcategory |-> <<"A","J","U","S","T","E","M","E","N","T","S","_","E","R","R","E","U","R","S">>],
    [id |-> <<"R","0","0","8">>, pattern |-> [head |-> "search", lit |-> <<"G","A","R","F","O"," ","-"," ","F","O","O","D"," ","&"," ","B","E","V","E","R","A","G","E",".">>, tail |-> "none"],
     category |-> <<"A","L","I","M","E","N","T","A","T","I","O","N">>, subcategory |-> <<"R","E","S","T","A","U","R","A","N","T","S">>],
    [id |-> <<"R","0","0","9">>, pattern |-> [head |-> "search", lit |-> <<"C","A","R","R","I","S"," ","-"," ","R","U","A"," ","1"," ","M","A","I","O",",","-","0","0">>, tail |-> "none"],
     category |-> <<"A","C","H","A","T","S">>, subcategory |-> <<"D","I","V","E","R","S">>],
    [id |-> <<"R","0","1","0">>, pattern |-> [head |-> "search", lit |-> <<"N","E","S","P","R","E","S","S","O"," ","F","R","A","N","C","E"," ","S",".","A",".","S",".">>, tail |-> "none"],
     category |-> <<"A","C","H","A","T","S">>, subcategory |-> <<"C","A","F","E">>],
    [id |-> <<"R","0","1","1">>, pattern |-> [head |-> "search", lit |-> <<"L","S"," ","L","A"," ","C","O","U","R"," ","D","E"," ","L","A"," ","C","H","T","I">>, tail |-> "none"],
     category |-> <<"A","L","I","M","E","N","T","A","T","I","O","N">>, subcategory |-> <<"R","E","S","T","A","U","R","A","N","T","S">>],
    [id |-> <<"R","0","1","2">>, pattern |-> [head |-> "search", lit |-> <<"S","N","C"," ","L","E"," ","B","I","E","N","V","E","N","U"," ","4","0","6","9","4","1","0">>, tail |-> "none"],
     category |-> <<"A","C","H","A","T","S">>, subcategory |-> <<"T","A","B","A","C">>],
    [id |-> <<"R","0","1","3">>, pattern |-> [head |-> "search", lit |-> <<"M","e","t","r","o","p","o","l","i","t","a","n","o"," ","d","e"," ","L","i","s","b","o","a">>, tail |-> "none"],
     category |-> <<"C","H","A","R","G","E","S","_","V","A","R","I","A","B","L","E","S">>, subcategory |-> <<"T","R","A","N","S","P","O","R","T","S","_","C","O","M","M","U","N">>],
    [id |-> <<"R","0","1","4">>, pattern |-> [head |-> "search", lit |-> <<"N","Y","X","*","L","I","L","L","E","A","U","T","O","M","A","T","I","Q","U","E","D","I","S","T">>, tail |-> "none"],
     category |-> <<"A","C","H","A","T","S">>, subcategory |-> <<"C","A","F","E">>],
    [id |-> <<"R","0","1","5">>, pattern |-> [head |-> "search", lit |-> <<"P","H","A","R"," ","B","O","U","R","G","M","A","Y","E","R"," ","4","1","9","4","0","6","9">>, tail |-> "none"],
     category |-> <<"S","A","N","T","E">>, subcategory |-> <<"P","H","A","R","M","A","C","I","E">>],
    [id |-> <<"R","0","1","6">>, pattern |-> [head |-> "search", lit |-> <<"A","s","s","o","c","i","a","t","i","o","n"," ","R","u","b","a","n"," ","R","o","s","e">>, tail |-> "none"],
     category |-> <<"D","I","V","E","R","S">>, subcategory |-> <<"D","O","N","S">>],
    [id |-> <<"R","0","1","7">>, pattern |-> [head |-> "search", lit |-> <<"C","a","s","h"," ","r","e","w","a","r","d"," ","a","l","l","o","c","a","t","i","o","n">>, tail |-> "none"],
     category |-> <<"D","I","V","E","R","S">>, subcategory |-> <<"A","J","U","S","T","E","M","E","N","T","S","_","E","R","R","E","U","R","S">>],
    [id |-> <<"R","0","1","8">>, pattern |-> [head |-> "search", lit |-> <<"N","Y","X","*","V","A","L","E","N","C","I","E","N","N","E","S","P","L","A","C","E","D","A">>, tail |-> "none"],
     category |-> <<"A","C","H","A","T","S">>, subcategory |-> <<"D","I","V","E","R","S">>],
    [id |-> <<"R","0","1","9">>, pattern |-> [head |-> "search", lit |-> <<"P","H","A","R","M","A","C","I","E"," ","V","A","L","S"," ","2","1","5","1","3","0","6">>, tail |-> "none"],
     category |-> <<"S","A","N","T","E">>, subcategory |-> <<"A","U","T","R","E","_","M","E","D","E","C","I","N","E">>],
    [id |-> <<"R","0","2","0">>, pattern |-> [head |-> "search", lit |-> <<"P","I","C","A","R","D"," ","S","A"," ","3","3","5"," ","4","9","9","8","9","8","5">>, tail |-> "none"],
     category |-> <<"A","L","I","M","E","N","T","A","T","I","O","N">>, subcategory |-> <<"C","O","U","R","S","E","S">>],
    [id |-> <<"R","0","2","1">>, pattern |-> [head |-> "search", lit |-> <<"B","A","R"," ","B","I","L","T","O","K","I"," ","H","A","L","L","E","S"," ","D">>, tail |-> "none"],
     category |-> <<"A","L","I","M","E","N","T","A","T","I","O","N">>, subcategory |-> <<"R","E","S","T","A","U","R","A","N","T","S">>],
    [id |-> <<"R","0","2","2">>, pattern |-> [head |-> "search", lit |-> <<"C","O","N","T","I","N"," ","B","O","M"," ","D","I","A"," ","L","I","S","B","O">>, tail |-> "none"],
     category |-> <<"A","L","I","M","E","N","T","A","T","I","O","N">>, subcategory |-> <<"C","O","U","R","S","E","S">>],
    [id |-> <<"R","0","2","3">>, pattern |-> [head |-> "search", lit |-> <<"Y","o","u","r"," ","S","a","v","e","b","a","c","k"," ","p","a","y","m","e","n","t">>, tail |-> "none"],
     category |-> <<"D","I","V","E","R","S">>, subcategory |-> <<"A","J","U","S","T","E","M","E","N","T","S","_","E","R","R","E","U","R","S">>],
    [id |-> <<"R","0","2","4">>, pattern |-> [head |-> "search", lit |-> <<"E","L","E","C","T","R","O"," ","D","E","P","O","T"," ","F","R","A","N","C","E">>, tail |-> "none"],
     category |-> <<"M","A","I","S","O","N">>, subcategory |-> <<"E","Q","U","I","P","E","M","E","N","T","_","E","L","E","C","T","R","O","M","E","N","A","G","E","R">>],
    [id |-> <<"R","0","2","5">>, pattern |-> [head |-> "search", lit |-> <<"L","I","S","B","O","N"," ","D","U","T","Y"," ","F","R","E","E"," ","T","2">>, tail |-> "none"],
     category |-> <<"L","O","I","S","I","R","S">>, subcategory |-> <<"V","A","C","A","N","C","E","S","_","W","E","E","K","E","N","D","S">>],
    [id |-> <<"R","0","2","6">>, pattern |-> [head |-> "search", lit |-> <<"C","I","V","E","T","T","E"," ","D","E"," ","L","A"," ","T","O","U","R">>, tail |-> "none"],
     category |-> <<"A","C","H","A","T","S">>, subcategory |-> <<"T","A","B","A","C">>],
    [id |-> <<"R","0","2","7">>, pattern |-> [head |-> "search", lit |-> <<"M","I","G","U","E","L"," ","C","A","S","T","R","O","-","S","I","L","V","A">>, tail |-> "none"],
     category |-> <<"A","C","H","A","T","S">>, subcategory |-> <<"D","I","V","E","R","S">>],
    [id |-> <<"R","0","2","8">>, pattern |-> [head |-> "search", lit |-> <<"P","A","D","E","L"," ","F","O","O","T","B","A","L","L"," ","C","L","U","B">>, tail |-> "none"],
     category |-> <<"L","O","I","S","I","R","S">>, subcategory |-> <<"S","P","O","R","T">>],
    [id |-> <<"R","0","2","9">>, pattern |-> [head |-> "search", lit |-> <<"R","E","L","A","Y"," ","T","R","I","B","S"," ","4","1","1","6","2","3","0">>, tail |-> "none"],
     category |-> <<"A","C","H","A","T","S">>, subcategory |-> <<"D","I","V","E","R","S">>],
    [id |-> <<"R","0","3","0">>, pattern |-> [head |-> "search", lit |-> <<"R","E","S","T","A","U","R","A","N","T","E"," ","F","E","R","N","A","N","D","O">>, tail |-> "none"],
     category |-> <<"A","L","I","M","E","N","T","A","T","I","O","N">>, subcategory |-> <<"R","E","S","T","A","U","R","A","N","T","S">>],
    [id |-> <<"R","0","3","1">>, pattern |-> [head |-> "search", lit |-> <<"4","P","A","D","E","L"," ","V","a","l","e","n","c","i","e","n","n","e","s">>, tail |-> "none"],
     category |-> <<"L","O","I","S","I","R","S">>, subcategory |-> <<"S","P","O","R","T">>],
    [id |-> <<"R","0","3","2">>, pattern |-> [head |-> "search", lit |-> <<"C","O","N","T","I","N","E","N","T","E"," ","B","O","M"," ","D","I","A">>, tail |-> "none"],
     category |-> <<"A","C","H","A","T","S">>, subcategory |-> <<"D","I","V","E","R","S">>],
    [id |-> <<"R","0","3","3">>, pattern |-> [head |-> "search", lit |-> <<"C","O","U","R","I","R"," ","V","A","L","E","N","C","I","E","N","N","E","S">>, tail |-> "none"],
     category |-> <<"A","C","H","A","T","S">>, subcategory |-> <<"V","E","T","E","M","E","N","T","S">>],
    [id |-> <<"R","0","3","4">>, pattern |-> [head |-> "search", lit |-> <<"F","E","R","M","E"," ","D","U"," ","P","O","N","T"," ","D","E","S">>, tail |-> "none"],
     category |-> <<"A","L","I","M","E","N","T","A","T","I","O","N">>, subcategory |-> <<"C","O","U","R","S","E","S">>],
    [id |-> <<"R","0","3","5">>, pattern |-> [head |-> "search", lit |-> <<"G","R","A","N","D"," ","F","R","A","I","S"," ","A","U","L","N","O","Y">>, tail |-> "none"],
     category |-> <<"A","L","I","M","E","N","T","A","T","I","O","N">>, subcategory |-> <<"C","O","U","R","S","E","S">>],
    [id |-> <<"R","0","3","6">>, pattern |-> [head |-> "search", lit |-> <<"M","C","D","O","N","A","L","D","S"," ","A","E","R","O","P","O","R","T","O">>, tail |-> "none"],
     category |-> <<"A","L","I","M","E","N","T","A","T","I","O","N">>, subcategory |-> <<"R","E","S","T","A","U","R","A","N","T","S">>],
    [id |-> <<"R","0","3","7">>, pattern |-> [head |-> "search", lit |-> <<"M","G","P","*","L","e"," ","P","o","t"," ","C","o","m","m","u","n">>, tail |-> "none"],
     category |-> <<"A","C","H","A","T","S">>, subcategory |-> <<"C","A","D","E","A","U","X">>],
    [id |-> <<"R","0","3","8">>, pattern |-> [head |-> "search", lit |-> <<"G","E","L","A","T","O","M","A","N","I","A"," ","N","A","Z","A","R","E">>, tail |-> "none"],
     category |-> <<"A","L","I","M","E","N","T","A","T","I","O","N">>, subcategory |-> <<"R","E","S","T","A","U","R","A","N","T","S">>],
    [id |-> <<"R","0","3","9">>, pattern |-> [head |-> "search", lit |-> <<"L","E"," ","C","Y","R","A","N","O"," ","4","2","6","6","1","6","1">>, tail |-> "none"],
     category |-> <<"A","C","H","A","T","S">>, subcategory |-> <<"T","A","B","A","C">>],
    [id |-> <<"R","0","4","0">>, pattern |-> [head |-> "search", lit |-> <<"L","E"," ","J","U","B","I","L","E"," ","4","3","5","7","4","5","3">>, tail |-> "none"],
     category |-> <<"A","L","I","M","E","N","T","A","T","I","O","N">>, subcategory |-> <<"R","E","S","T","A","U","R","A","N","T","S">>],
    [id |-> <<"R","0","4","1">>, pattern |-> [head |-> "search", lit |-> <<"B","I","E"," ","D","E"," ","L","A"," ","H","A","L","L","E">>, tail |-> "none"],
     category |-> <<"A","L","I","M","E","N","T","A","T","I","O","N">>, subcategory |-> <<"B","O","U","C","H","E","R","I","E">>],
    [id |-> <<"R","0","4","2">>, pattern |-> [head |-> "search", lit |-> <<"E","0","0","2","2","A","P","I"," ","E","D","S"," ","O","N","E">>, tail |-> "none"],
     category |-> <<"A","L","I","M","E","N","T","A","T","I","O","N">>, subcategory |-> <<"R","E","S","T","A","U","R","A","N","T","S">>],
    [id |-> <<"R","0","4","3">>, pattern |-> [head |-> "search", lit |-> <<"P","A","D","E","L"," ","F","O","O","T","B","A","L","L"," ","C">>, tail |-> "none"],
     category |-> <<"L","O","I","S","I","R","S">>, subcategory |-> <<"S","P","O","R","T">>],
    [id |-> <<"R","0","4","4">>, pattern |-> [head |-> "search", lit |-> <<"P","A","S","T","E","I","S"," ","D","E"," ","B","E","L","E","M">>, tail |-> "none"],
     category |-> <<"A","L","I","M","E","N","T","A","T","I","O","N">>, subcategory |-> <<"C","O","U","R","S","E","S">>],
    [id |-> <<"R","0","4","5">>, pattern |-> [head |-> "search", lit |-> <<"S","H","I","F","U"," ","R","A","M","E","N"," ","R","E","S","T">>, tail |-> "none"],
     category |-> <<"A","L","I","M","E","N","T","A","T","I","O","N">>, subcategory |-> <<"R","E","S","T","A","U","R","A","N","T","S">>],
    [id |-> <<"R","0","4","6">>, pattern |-> [head |-> "search", lit |-> <<"S","u","m","U","p"," ","*","S","B","C","O","N","C","E","P","T">>, tail |-> "none"],
     category |-> <<"A","C","H","A","T","S">>, subcategory |-> <<"S","O","I","N"," ","D","E"," ","L","A"," ","P","E","R","S","O","N","N","E">>],
    [id |-> <<"R","0","4","7">>, pattern |-> [head |-> "search", lit |-> <<"T","E","R","R","A","C","O"," ","E","D","I","T","O","R","I","A","L">>, tail |-> "none"],
     category |-> <<"A","C","H","A","T","S">>, subcategory |-> <<"D","I","V","E","R","S">>],
    [id |-> <<"R","0","4","8">>, pattern |-> [head |-> "search", lit |-> <<"I","n","t","e","r","e","s","t"," ","p","a","y","m","e","n","t">>, tail |-> "none"],
     category |-> <<"B","A","N","Q","U","E">>, subcategory |-> <<"I","N","T","E","R","E","T","S">>],
    [id |-> <<"R","0","4","9">>, pattern |-> [head |-> "search", lit |-> <<"M","C","D","O","N","A","L","D","S"," ","C","H","I","A","D","O">>, tail |-> "none"],
     category |-> <<"A","L","I","M","E","N","T","A","T","I","O","N">>, subcategory |-> <<"R","E","S","T","A","U","R","A","N","T","S">>],
    [id |-> <<"R","0","5","0">>, pattern |-> [head |-> "search", lit |-> <<"S","n","P","*","S","P","E","E","D"," ","P","I","Z","Z","A">>, tail |-> "none"],
     category |-> <<"A","L","I","M","E","N","T","A","T","I","O","N">>, subcategory |-> <<"R","E","S","T","A","U","R","A","N","T","S">>],
    [id |-> <<"R","0","5","1">>, pattern |-> [head |-> "search", lit |-> <<"B","E","E","R"," ","E","X","P","E","R","I","E","N","C","E">>, tail |-> "none"],
     category |-> <<"A","C","H","A","T","S">>, subcategory |-> <<"D","I","V","E","R","S">>],
    [id |-> <<"R","0","5","2">>, pattern |-> [head |-> "search", lit |-> <<"C","H","E","Z"," ","M","O","N"," ","V","I","E","U","X">>, tail |-> "none"],
     category |-> <<"A","L","I","M","E","N","T","A","T","I","O","N">>, subcategory |-> <<"R","E","S","T","A","U","R","A","N","T","S">>],
    [id |-> <<"R","0","5","3">>, pattern |-> [head |-> "search", lit |-> <<"D","C","T","R"," ","M","A","R","G","U","E","R","I","T","T">>, tail |-> "none"],
     category |-> <<"S","A","N","T","E">>, subcategory |-> <<"M","E","D","E","C","I","N">>],
    [id |-> <<"R","0","5","4">>, pattern |-> [head |-> "search", lit |-> <<"G","D"," ","F","R","A","I","S"," ","S","E","N","T","I">>, tail |-> "none"],
     category |-> <<"A","L","I","M","E","N","T","A","T","I","O","N">>, subcategory |-> <<"C","O","U","R","S","E","S">>],
    [id |-> <<"R","0","5","5">>, pattern |-> [head |-> "search", lit |-> <<"M","A"," ","D","U","Q","U","E"," ","L","O","U","L","E">>, tail |-> "none"],
     category |-> <<"A","C","H","A","T","S">>, subcategory |-> <<"D","I","V","E","R","S">>],
    [id |-> <<"R","0","5","6">>, pattern |-> [head |-> "search", lit |-> <<"S","I","N","T","R","A"," ","L","R","O"," ","T","V","M">>, tail |-> "none"],
     category |-> <<"C","H","A","R","G","E","S","_","V","A","R","I","A","B","L","E","S">>, subcategory |-> <<"T","R","A","N","S","P","O","R","T","S","_","C","O","M","M","U","N">>],
    [id |-> <<"R","0","5","7">>, pattern |-> [head |-> "search", lit |-> <<"A","P","P","L","E",".","C","O","M","/","B","I","L","L">>, tail |-> "none"],
     category |-> <<"C","H","A","R","G","E","S","_","F","I","X","E","S">>, subcategory |-> <<"A","B","O","N","N","E","M","E","N","T","S","_","F","I","X","E","S">>],
    [id |-> <<"R","0","5","8">>, pattern |-> [head |-> "search", lit |-> <<"D","E","L","E","B","A","R","R","E"," ","V","I","N","S">>, tail |-> "none"],
     category |-> <<"A","C","H","A","T","S">>, subcategory |-> <<"C","A","D","E","A","U","X">>],
    [id |-> <<"R","0","5","9">>, pattern |-> [head |-> "search", lit |-> <<"E","U","R","L"," ","A"," ","M","O","R","E","A","U">>, tail |-> "none"],
     category |-> <<"A","L","I","M","E","N","T","A","T","I","O","N">>, subcategory |-> <<"B","O","U","L","A","N","G","E","R","I","E">>],
    [id |-> <<"R","0","6","0">>, pattern |-> [head |-> "search", lit |-> <<"F","E","R","M","E"," ","D","U"," ","S","A","R","T">>, tail |-> "none"],
     category |-> <<"A","L","I","M","E","N","T","A","T","I","O","N">>, subcategory |-> <<"C","O","U","R","S","E","S">>],
    [id |-> <<"R","0","6","1">>, pattern |-> [head |-> "search", lit |-> <<"M","'","M","A"," ","T","U","R","I","N","E","T","T","I">>, tail |-> "none"],
     category |-> <<"A","L","I","M","E","N","T","A","T","I","O","N">>, subcategory |-> <<"R","E","S","T","A","U","R","A","N","T","S">>],
    [id |-> <<"R","0","6","2">>, pattern |-> [head |-> "search", lit |-> <<"M","A","R","I","E"," ","B","L","A","C","H","E","R","E">>, tail |-> "none"],
     category |-> <<"A","L","I","M","E","N","T","A","T","I","O","N">>, subcategory |-> <<"C","O","U","R","S","E","S">>],
    [id |-> <<"R","0","6","3">>, pattern |-> [head |-> "search", lit |-> <<"S","I","N","T","R","A"," ","T","E","R","R","A","C","E">>, tail |-> "none"],
     category |-> <<"A","L","I","M","E","N","T","A","T","I","O","N">>, subcategory |-> <<"R","E","S","T","A","U","R","A","N","T","S">>],
    [id |-> <<"R","0","6","4">>, pattern |-> [head |-> "search", lit |-> <<"T","I","M","E"," ","O","U","T"," ","S","H","O","P">>, tail |-> "none"],
     category |-> <<"L","O","I","S","I","R","S">>, subcategory |-> <<"V","A","C","A","N","C","E","S","_","W","E","E","K","E","N","D","S">>],
    [id |-> <<"R","0","6","5">>, pattern |-> [head |-> "search", lit |-> <<"V","I","N","S"," ","G","O","U","R","M","A","N","D","S">>, tail |-> "none"],
     category |-> <<"A","C","H","A","T","S">>, subcategory |-> <<"V","I","N">>],
    [id |-> <<"R","0","6","6">>, pattern |-> [head |-> "search", lit |-> <<"W","E","B"," ","T","E","N","N","I","S"," ","S","C">>, tail |-> "none"],
     category |-> <<"L","O","I","S","I","R","S">>, subcategory |-> <<"S","P","O","R","T">>],
    [id |-> <<"R","0","6","7">>, pattern |-> [head |-> "search", lit |-> <<"S","U","R"," ","L","E"," ","P","O","U","C","E">>, tail |-> "none"],
     category |-> <<"A","L","I","M","E","N","T","A","T","I","O","N">>, subcategory |-> <<"R","E","S","T","A","U","R","A","N","T","S">>],
    [id |-> <<"R","0","6","8">>, pattern |-> [head |-> "search", lit |-> <<"Z","e","t","t","l","e","_","*","S","a","h","i","l">>, tail |-> "none"],
     category |-> <<"A","L","I","M","E","N","T","A","T","I","O","N">>, subcategory |-> <<"R","E","S","T","A","U","R","A","N","T","S">>],
    [id |-> <<"R","0","6","9">>, pattern |-> [head |-> "search", lit |-> <<"L","E"," ","L","O","N","G","C","H","A","M","P">>, tail |-> "none"],
     category |-> <<"A","C","H","A","T","S">>, subcategory |-> <<"T","A","B","A","C">>],
    [id |-> <<"R","0","7","0">>, pattern |-> [head |-> "search", lit |-> <<"M","A","I","S","O","N"," ","R","I","N","C">>, tail |-> "none"],
     category |-> <<"A","C","H","A","T","S">>, subcategory |-> <<"C","A","D","E","A","U","X">>],
    [id |-> <<"R","0","7","1">>, pattern |-> [head |-> "search", lit |-> <<"S","A","S"," ","B","O","N","D","U","W","E">>, tail |-> "none"],
     category |-> <<"A","C","H","A","T","S">>, subcategory |-> <<"D","I","V","E","R","S">>],
    [id |-> <<"R","0","7","2">>, pattern |-> [head |-> "search", lit |-> <<"S","P","E","E","D"," ","P","I","Z","Z","A">>, tail |-> "none"],
     category |-> <<"A","L","I","M","E","N","T","A","T","I","O","N">>, subcategory |-> <<"R","E","S","T","A","U","R","A","N","T","S">>],
    [id |-> <<"R","0","7","3">>, pattern |-> [head |-> "search", lit |-> <<"T","C","E"," ","4","3","3","2","5","4","8">>, tail |-> "none"],
     category |-> <<"L","O","I","S","I","R","S">>, subcategory |-> <<"S","P","O","R","T">>],
    [id |-> <<"R","0","7","4">>, pattern |-> [head |-> "search", lit |-> <<"V","A","L"," ","V","I","A","N","D","E","S">>, tail |-> "none"],
     category |-> <<"A","L","I","M","E","N","T","A","T","I","O","N">>, subcategory |-> <<"B","O","U","C","H","E","R","I","E">>],
    [id |-> <<"R","0","7","5">>, pattern |-> [head |-> "search", lit |-> <<"C","A","F","E","S"," ","R","E","M","Y">>, tail |-> "none"],
     category |-> <<"A","C","H","A","T","S">>, subcategory |-> <<"C","A","F","E">>],
    [id |-> <<"R","0","7","6">>, pattern |-> [head |-> "search", lit |-> <<"I","N","T","E","R","M","A","R","C","H","E">>, tail |-> "none"],
     category |-> <<"A","L","I","M","E","N","T","A","T","I","O","N">>, subcategory |-> <<"C","O","U","R","S","E","S">>],
    [id |-> <<"R","0","7","7">>, pattern |-> [head |-> "search", lit |-> <<"L","E"," ","V","A","L","E","N","C","Y">>, tail |-> "none"],
     category |-> <<"A","C","H","A","T","S">>, subcategory |-> <<"T","A","B","A","C">>],
    [id |-> <<"R","0","7","8">>, pattern |-> [head |-> "search", lit |-> <<"V","I","N","I"," ","L","I","L","L","E">>, tail |-> "none"],
     category |-> <<"A","L","I","M","E","N","T","A","T","I","O","N">>, subcategory |-> <<"R","E","S","T","A","U","R","A","N","T","S">>],
    [id |-> <<"R","0","7","9">>, pattern |-> [head |-> "search", lit |-> <<"S","P"," ","W","I","L","D","D","E">>, tail |-> "none"],
     category |-> <<"A","C","H","A","T","S">>, subcategory |-> <<"S","O","I","N"," ","D","E"," ","L","A"," ","P","E","R","S","O","N","N","E">>],
    [id |-> <<"R","0","8","0">>, pattern |-> [head |-> "search", lit |-> <<"R","I","G","O","L","E","T","T","O">>, tail |-> "none"],
     category |-> <<"A","L","I","M","E","N","T","A","T","I","O","N">>, subcategory |-> <<"R","E","S","T","A","U","R","A","N","T","S">>],
    [id |-> <<"R","0","8","1">>, pattern |-> [head |-> "search", lit |-> <<"S","A","S"," ","B","E","T","A">>, tail |-> "none"],
     category |-> <<"A","L","I","M","E","N","T","A","T","I","O","N">>, subcategory |-> <<"B","O","U","L","A","N","G","E","R","I","E">>],
    [id |-> <<"R","0","8","2">>, pattern |-> [head |-> "search", lit |-> <<"E","L"," ","G","A","N","A">>, tail |-> "none"],
     category |-> <<"A","L","I","M","E","N","T","A","T","I","O","N">>, subcategory |-> <<"R","E","S","T","A","U","R","A","N","T","S">>],
    [id |-> <<"R","0","8","3">>, pattern |-> [head |-> "search", lit |-> <<"O"," ","T","E","R","A">>, tail |-> "none"],
     category |-> <<"A","L","I","M","E","N","T","A","T","I","O","N">>, subcategory |-> <<"C","O","U","R","S","E","S">>],
    [id |-> <<"R","0","8","4">>, pattern |-> [head |-> "search", lit |-> <<"C","H","O","O","S","E">>, tail |-> "none"],
     category |-> <<"A","C","H","A","T","S">>, subcategory |-> <<"D","I","V","E","R","S">>],
    [id |-> <<"R","0","8","5">>, pattern |-> [head |-> "search", lit |-> <<"M","Y","T","H","O","S">>, tail |-> "none"],
     category |-> <<"A","L","I","M","E","N","T","A","T","I","O","N">>, subcategory |-> <<"R","E","S","T","A","U","R","A","N","T","S">>],
    [id |-> <<"R","0","8","6">>, pattern |-> [head |-> "search", lit |-> <<"O","X","Y","B","U","L">>, tail |-> "none"],
     category |-> <<"A","C","H","A","T","S">>, subcategory |-> <<"C","A","D","E","A","U","X">>],
    [id |-> <<"R","0","8","7">>, pattern |-> [head |-> "search", lit |-> <<"V","P","C">>, tail |-> "none"],
     category |-> <<"A","C","H","A","T","S">>, subcategory |-> <<"C","A","F","E">>],
    [id |-> <<"R","0","8","8">>, pattern |-> [head |-> "wb", lit |-> <<"S","A","V","I","N","G","S"," ","P","L","A","N"," ","E","X","E","C","U","T","I","O","N">>, tail |-> "wb_rest"],
     category |-> <<"E","P","A","R","G","N","E">>, subcategory |-> <<"I","N","V","E","S","T","I","S","S","E","M","E","N","T","S">>],
    [id |-> <<"R","0","8","9">>, pattern |-> [head |-> "wb", lit |-> <<"A","M","A","Z","O","N"," ","P","A","Y","M","E","N","T","S">>, tail |-> "wb_rest"],
     category |-> <<"A","C","H","A","T","S">>, subcategory |-> <<"D","I","V","E","R","S">>],
    [id |-> <<"R","0","9","0">>, pattern |-> [head |-> "wb", lit |-> <<"A","L","I","M"," ","C","A","R","R","E","F","O","U","R">>, tail |-> "wb_rest"],
     category |-> <<"A","L","I","M","E","N","T","A","T","I","O","N">>, subcategory |-> <<"C","O","U","R","S","E","S">>],
    [id |-> <<"R","0","9","1">>, pattern |-> [head |-> "wb", lit |-> <<"A","M","A","Z","O","N"," ","E","U"," ","S","A","R","L">>, tail |-> "wb_rest"],
     category |-> <<"A","C","H","A","T","S">>, subcategory |-> <<"D","I","V","E","R","S">>],
    [id |-> <<"R","0","9","2">>, pattern |-> [head |-> "wb", lit |-> <<"A","M","A","Z","O","N"," ","P","R","I","M","E">>, tail |-> "wb_rest"],
     category |-> <<"C","H","A","R","G","E","S","_","F","I","X","E","S">>, subcategory |-> <<"A","B","O","N","N","E","M","E","N","T","S","_","F","I","X","E","S">>],
    [id |-> <<"R","0","9","3">>, pattern |-> [head |-> "wb", lit |-> <<"L","E","R","O","Y"," ","M","E","R","L","I","N">>, tail |-> "wb_rest"],
     category |-> <<"M","A","I","S","O","N">>, subcategory |-> <<"B","R","I","C","O","L","A","G","E">>],
    [id |-> <<"R","0","9","4">>, pattern |-> [head |-> "wb", lit |-> <<"A","M","Z","N"," ","M","K","T","P">>, tail |-> "wb_rest"],
     category |-> <<"A","C","H","A","T","S">>, subcategory |-> <<"D","I","V","E","R","S">>],
    [id |-> <<"R","0","9","5">>, pattern |-> [head |-> "wb", lit |-> <<"Z","E","N","P","A","R","K">>, tail |-> "wb_rest"],
     category |-> <<"C","H","A","R","G","E","S","_","V","A","R","I","A","B","L","E","S">>, subcategory |-> <<"S","T","A","T","I","O","N","N","E","M","E","N","T","_","P","E","A","G","E","S">>]
  >>

\* ScanRules keeping the last matching rule instead of the first
ScanRulesLast(d, i) ==
  LET hits == {k \in i..Len(RULES) : Search(RULES[k].pattern, d)}
      last == CHOOSE k \in hits : \A h \in hits : h <= k
  IN  IF hits = {} THEN None
      ELSE Some(<<RULES[last].category, RULES[last].subcategory, RULES[last].id>>)

\* the loop of predict_by_rules from rule i on
RECURSIVE ScanRules(_, _)
ScanRules(d, i) ==
  IF i > Len(RULES) THEN None
  ELSE IF Search(RULES[i].pattern, d)
       THEN Some(<<RULES[i].category, RULES[i].subcategory, RULES[i].id>>)
       ELSE ScanRules(d, i + 1)

\* description is an Optional str
predict_by_rules(description) ==
  ScanRules(normalize_description(description), 1)

----------------------------------------------------------------------------
(* Python numbers *)

\* A float is nan, an infinity, or the decimal number m * 10^e closest to it,
\* with m not a multiple of 10 so that equal numbers are equal records
\* (0.0 and -0.0, which Python compares equal, are both m = 0).  Mantissas
\* have at most 9 digits.
FloatNan == [kind |-> "nan"]

FloatInf(neg) == [kind |-> "inf", neg |-> neg]

RECURSIVE Fin(_, _)
Fin(m, e) ==
  IF m = 0 THEN [kind |-> "fin", m |-> 0, e |-> 0]
  ELSE IF m % 10 = 0 THEN Fin(m \div 10, e + 1)
  ELSE [kind |-> "fin", m |-> m, e |-> e]

Zero == Fin(0, 0)

IsFinite(v) == v.kind = "fin"

RECURSIVE Pow10(_)
Pow10(n) == IF n = 0 THEN 1 ELSE 10 * Pow10(n - 1)

\* v < w for finite v and w
FloatLess(v, w) ==
  LET k == IF v.e < w.e THEN v.e ELSE w.e
  IN  v.m * Pow10(v.e - k) < w.m * Pow10(w.e - k)

DigitChars == <<"0","1","2","3","4","5","6","7","8","9">>

DigitValue(c) == (CHOOSE k \in 1..10 : DigitChars[k] = c) - 1

RECURSIVE DigitsOf(_)
DigitsOf(n) ==
  IF n < 10 THEN <<DigitChars[n + 1]>>
  ELSE Append(DigitsOf(n \div 10), DigitChars[(n % 10) + 1])

RECURSIVE ToNat(_)
ToNat(ds) ==
  IF ds = <<>> THEN 0
  ELSE 10 * ToNat(SubSeq(ds, 1, Len(ds) - 1)) + DigitValue(ds[Len(ds)])

Abs(n) == IF n < 0 THEN 0 - n ELSE n

Zeros(n) == [i \in 1..n |-> "0"]

\* the first d digits of a 9-digit number
Leading(digits9, d) == digits9 \div Pow10(9 - d)

\* the double nearest to neg m * 10^e: beyond the largest double it is an
\* infinity (from 1.797693134862315808e308 on), below half the smallest
\* subnormal it is zero (up to 2.470328229206232721e-324)
RoundToDouble(neg, m, e) ==
  LET v     == Fin(m, e)
      d     == Len(DigitsOf(v.m))
      order == d + v.e - 1
  IN  IF v.m = 0 THEN Zero
      ELSE IF order > 308 \/ (order = 308 /\ v.m > Leading(179769313, d))
        THEN FloatInf(neg)
      ELSE IF order < 0 - 324 \/ (order = 0 - 324 /\ v.m <= Leading(247032822, d))
        THEN Zero
      ELSE Fin(IF neg THEN 0 - v.m ELSE v.m, v.e)

\* index of the first element of s that lies in chars, 0 if there is none
FirstIn(s, chars) ==
  IF \E i \in 1..Len(s) : s[i] \in chars
  THEN CHOOSE i \in 1..Len(s) : s[i] \in chars /\ \A k \in 1..i - 1 : s[k] \notin chars
  ELSE 0

Without(s, c) == SelectSeq(s, LAMBDA x : x # c)

\* str.replace(old, new) for one-character old and new of length at most one
replace(s, old, new) ==
  IF new = <<>> THEN Without(s, old)
  ELSE [i \in 1..Len(s) |-> IF s[i] = old THEN new[1] ELSE s[i]]

\* digits, with single underscores allowed between them
IsDigitPart(t) ==
  /\ t # <<>>
  /\ \A i \in 1..Len(t) : t[i] \in Digits \cup {"_"}
  /\ t[1] # "_" /\ t[Len(t)] # "_"
  /\ \A i \in 1..Len(t) - 1 : ~(t[i] = "_" /\ t[i + 1] = "_")

HasSign(s) == s # <<>> /\ s[1] \in {"+", "-"}

Unsigned(s) == IF HasSign(s) THEN Tail(s) ELSE s

\* float(s) for a str s: None when it raises ValueError
float(s) ==
  LET t     == strip(s)
      neg   == HasSign(t) /\ t[1] = "-"
      body  == Unsigned(t)
      epos  == FirstIn(body, {"e", "E"})
      mant  == IF epos = 0 THEN body ELSE SubSeq(body, 1, epos - 1)
      expo  == IF epos = 0 THEN <<>> ELSE SubSeq(body, epos + 1, Len(body))
      dot   == FirstIn(mant, {"."})
      ip    == IF dot = 0 THEN mant ELSE SubSeq(mant, 1, dot - 1)
      fp    == IF dot = 0 THEN <<>> ELSE SubSeq(mant, dot + 1, Len(mant))
      okMant ==
        \/ IsDigitPart(ip) /\ (fp = <<>> \/ IsDigitPart(fp))
        \/ ip = <<>> /\ dot # 0 /\ IsDigitPart(fp)
      okExp == epos = 0 \/ IsDigitPart(Unsigned(expo))
      fpd   == Without(fp, "_")
      m     == ToNat(Without(ip, "_") \o fpd)
      x     == ToNat(Without(Unsigned(expo), "_"))
      e     == IF HasSign(expo) /\ expo[1] = "-" THEN 0 - x ELSE x
  IN  IF lower(body) \in {<<"i","n","f">>, <<"i","n","f","i","n","i","t","y">>} THEN Some(FloatInf(neg))
      ELSE IF lower(body) = <<"n","a","n">> THEN Some(FloatNan)
      ELSE IF okMant /\ okExp THEN Some(RoundToDouble(neg, m, e - Len(fpd)))
      ELSE None

\* repr of a float
float_repr(v) ==
  IF v.kind = "nan" THEN <<"n","a","n">>
  ELSE IF v.kind = "inf" THEN (IF v.neg THEN <<"-">> ELSE <<>>) \o <<"i","n","f">>
  ELSE IF v.m = 0 THEN <<"0",".","0">>
  ELSE
    LET ds    == DigitsOf(Abs(v.m))
        n     == Len(ds)
        decpt == n + v.e
        x     == DigitsOf(Abs(decpt - 1))
        fixed ==
          IF decpt <= 0 THEN <<"0",".">> \o Zeros(0 - decpt) \o ds
          ELSE IF decpt >= n THEN ds \o Zeros(decpt - n) \o <<".","0">>
          ELSE SubSeq(ds, 1, decpt) \o <<".">> \o SubSeq(ds, decpt + 1, n)
        sci ==
          <<ds[1]>> \o (IF n > 1 THEN <<".">> \o Tail(ds) ELSE <<>>)
          \o <<"e", IF decpt - 1 < 0 THEN "-" ELSE "+">>
          \o (IF Len(x) < 2 THEN <<"0">> ELSE <<>>) \o x
    IN  (IF v.m < 0 THEN <<"-">> ELSE <<>>)
        \o (IF 0 - 4 < decpt /\ decpt <= 16 THEN fixed ELSE sci)

\* str(x) for the values an amount arrives as
str(x) ==
  CASE x.kind = "str"   -> x.s
    [] x.kind = "int"   -> (IF x.n < 0 THEN <<"-">> ELSE <<>>) \o DigitsOf(Abs(x.n))
    [] x.kind = "float" -> float_repr(x.v)

StrVal(s) == [kind |-> "str", s |-> s]

IntVal(n) == [kind |-> "int", n |-> n]

FloatVal(v) == [kind |-> "float", v |-> v]

----------------------------------------------------------------------------
(* app/ml_model.py and train.py: the amount parser *)

\* lines 29-33 of ml_model.py, 42-46 of train.py
ParseText(x) ==
  LET s == replace(replace(strip(str(x)), " ", <<>>), ",", <<".">>)
      f == float(s)
  IN  IF IsNone(f) THEN Zero ELSE Get(f)

\* ml_model.py; x is an Optional value
_parse_amount(x) ==
  IF IsNone(x) THEN Zero ELSE ParseText(Get(x))

\* train.py; x is an Optional value
parse_amount(x) ==
  IF IsNone(x) \/ (Get(x).kind = "float" /\ Get(x).v.kind = "nan") THEN Zero
  ELSE ParseText(Get(x))

\* the characters amount texts are enumerated over
AmountChars == {"1", "2", ",", ".", " ", "-", "e", "n", "a"}

AmountTexts ==
  SeqsUpTo(AmountChars, MaxAmountLen)
  \cup { <<"2","9",",","2","1">>, <<"2","9",".","2","1">>, <<"a","b","c">>, <<"1"," ","2","3","4",",","5">>, <<"1",",","2","3","4",".","5">>, <<" ","1","2"," ">>,
         <<"+","1","_","0">>, <<"1","_","_","0">>, <<"1","e","5">>, <<"1","E","-","2">>, <<".","5","e","1">>, <<"5",".">>,
         <<"i","n","f">>, <<"-","I","n","f","i","n","i","t","y">>, <<"N","a","N">>, <<"1","e","9","9","9">>, <<"2","e","3","0","8">>,
         <<"1","e","3","0","8">>, <<"1","e","-","9","9","9">>, <<"1","\t","2">> }

AmountFloats ==
  { Fin(2921, 0 - 2), Fin(5, 0), Fin(0 - 5, 0 - 1), Fin(1, 22), Fin(15, 0 - 6),
    Zero, FloatInf(FALSE), FloatInf(TRUE), FloatNan }

AmountInputs ==
  {None}
  \cup {Some(StrVal(s)) : s \in AmountTexts}
  \cup {Some(IntVal(n)) : n \in {0 - 3, 0, 7, 120}}
  \cup {Some(FloatVal(v)) : v \in AmountFloats}

----------------------------------------------------------------------------
(* app/ml_model.py: the label of the classifier *)

Separator == <<" ","/"," ">>

\* index of the first occurrence of sep in s, 0 if there is none
Find(s, sep) ==
  IF \E i \in 1..Len(s) : LitAt(sep, s, i)
  THEN CHOOSE i \in 1..Len(s) :
         LitAt(sep, s, i) /\ \A k \in 1..i - 1 : ~LitAt(sep, s, k)
  ELSE 0

\* split_label cutting at the last separator instead of the first
split_label_last(lbl) ==
  LET hits == {i \in 1..Len(lbl) : LitAt(Separator, lbl, i)}
      last == CHOOSE i \in hits : \A h \in hits : h <= i
  IN  IF hits # {}
      THEN <<SubSeq(lbl, 1, last - 1),
             SubSeq(lbl, last + Len(Separator), Len(lbl))>>
      ELSE <<lbl, <<>>>>

\* lines 77-80 of TxModel.predict: <<category, subcategory>>
split_label(lbl) ==
  LET i == Find(lbl, Separator)
  IN  IF i # 0
      THEN <<SubSeq(lbl, 1, i - 1),
             SubSeq(lbl, i + Len(Separator), Len(lbl))>>
      ELSE <<lbl, <<>>>>

\* the characters labels are enumerated over
LabelChars == {"A", " ", "/"}

LabelTexts ==
  SeqsUpTo(LabelChars, MaxLabelLen)
  \cup { <<"A","L","I","M","E","N","T","A","T","I","O","N"," ","/"," ","R","E","S","T","A","U","R","A","N","T","S">>, <<"D","I","V","E","R","S">>, <<"A"," ","/"," ","B"," ","/"," ","C">> }

----------------------------------------------------------------------------
(* Descriptions *)

\* descriptions as the bank writes them
Cores ==
  { <<"P","A","S","S">>, <<"T","O","T","A","L"," ","5">>, <<"T","O","T","A","L","I","T","E">>, <<"T","O","T","A","L"," ","I","N","T","E","R","M","A","R","C","H","E">>,
    <<"I","N","T","E","R","M","A","R","C","H","E"," ","T","O","T","A","L">>, <<"P","A","S","S"," ","V","P","C">>, <<"I","n","t","e","r","e","s","t"," ","p","a","y","m","e","n","t">>,
    <<"M","e","t","r","o","p","o","l","i","t","a","n","o"," ","d","e"," ","L","i","s","b","o","a">>, <<"A","p","p","l","e",".","c","o","m","/","b","i","l","l">>, <<"A","M","A","Z","O","N",".","F","R","*","Z","9">>,
    <<"A","M","A","Z","O","N",".","F","R","*">>, <<"P","A","D","E","L"," ","F","O","O","T","B","A","L","L"," ","C","L","U","B">>, <<"S","n","P","*","S","P","E","E","D"," ","P","I","Z","Z","A">>,
    <<"A","M","A","Z","O","N"," ","P","R","I","M","E"," ","F","R"," ","2">>, <<"Z","E","N","P","A","R","K","M","A","I","L"," ","4">>, <<"Z","E","N","P","A","R","K"," ","4">>,
    <<"L","E"," ","V","A","L","E","N","C","Y">>, <<"C","A","F","E"," ","1","2">>, <<"X","Y","Z">>, <<>> }

\* s with every space replaced by gap
RECURSIVE Spread(_, _)
Spread(s, gap) ==
  IF s = <<>> THEN <<>>
  ELSE (IF Head(s) = " " THEN gap ELSE <<Head(s)>>) \o Spread(Tail(s), gap)

Recase(s, mode) ==
  CASE mode = "asis"  -> s
    [] mode = "upper" -> upper(s)
    [] mode = "lower" -> lower(s)

\* whitespace before and after a description
Margins == {<<>>, <<" ">>, <<"\t", "\n">>}

Gaps == SeqsUpTo(Whitespace, MaxGap) \ {<<>>}

\* the core written with another letter case and whitespace layout
Variant(core, mode, lead, gap, trail) ==
  lead \o Recase(Spread(core, gap), mode) \o trail

Descriptions ==
  { Variant(core, mode, lead, gap, trail) :
      core \in Cores, mode \in {"asis", "upper", "lower"},
      lead \in Margins, gap \in Gaps, trail \in Margins }

\* every short text over a lowercase letter, an uppercase letter, a lowercase
\* letter without an uppercase form and two whitespace characters
TextChars == {"a", "B", "º", " ", "\t"}

ShortTexts == SeqsUpTo(TextChars, MaxTextLen)

NormalizeInputs ==
  {None} \cup {Some(d) : d \in Descriptions \cup ShortTexts}

----------------------------------------------------------------------------
(* One call of a pure function *)

CallInit(f, inputs) ==
  /\ fn = f
  /\ arg \in inputs
  /\ ret = None
  /\ returned = FALSE

NoCall ==
  /\ fn = "none"
  /\ arg = None
  /\ ret = None
  /\ returned = FALSE

Call_normalize_description ==
  /\ fn = "normalize_description"
  /\ ~returned
  /\ ret' = Some(normalize_description(arg))
  /\ returned' = TRUE
  /\ UNCHANGED <<fn, arg>>
  /\ UNCHANGED appVars

Call_predict_by_rules ==
  /\ fn = "predict_by_rules"
  /\ ~returned
  /\ ret' = predict_by_rules(arg)
  /\ returned' = TRUE
  /\ UNCHANGED <<fn, arg>>
  /\ UNCHANGED appVars

Call__parse_amount ==
  /\ fn = "_parse_amount"
  /\ ~returned
  /\ ret' = Some(_parse_amount(arg))
  /\ returned' = TRUE
  /\ UNCHANGED <<fn, arg>>
  /\ UNCHANGED appVars

Call_parse_amount ==
  /\ fn = "parse_amount"
  /\ ~returned
  /\ ret' = Some(parse_amount(arg))
  /\ returned' = TRUE
  /\ UNCHANGED <<fn, arg>>
  /\ UNCHANGED appVars

Call_split_label ==
  /\ fn = "split_label"
  /\ ~returned
  /\ ret' = Some(split_label(arg))
  /\ returned' = TRUE
  /\ UNCHANGED <<fn, arg>>
  /\ UNCHANGED appVars

----------------------------------------------------------------------------
(* The process before startup *)

AppBoot ==
  /\ pc = "boot"
  /\ _ml = "TxModel"
  /\ pipeline = "None"
  /\ loadAttempts = 0
  /\ startup = None
  /\ served = 0
  /\ tx = None
  /\ rule_result = None
  /\ X = None
  /\ label = None
  /\ proba = None
  /\ pred = None
  /\ result = None
  /\ ruleLookups = 0
  /\ mlCalls = 0

----------------------------------------------------------------------------
(* app/model.py and app/ml_model.py: startup *)

\* what joblib.load can hand back: a pipeline with predict_proba, one
\* without, or a pickled None
Artifacts == {"proba", "noproba", "None"}

\* LoadGuard letting a later request load again while _ml is None
LoadGuard_Retry == pc = "boot" \/ (pc = "idle" /\ _ml = "None")

\* the module body of model.py runs once, when the process imports it
LoadGuard == pc = "boot"

\* model.py 10-17 with TxModel.load: the file is missing or joblib.load
\* raises, and the except clause sets _ml to None; or the artifact is loaded
Load ==
  /\ LoadGuard
  /\ loadAttempts' = loadAttempts + 1
  /\ \/ /\ _ml' = "None"
        /\ pipeline' = pipeline
        /\ startup' = Some([ml |-> "None", pipeline |-> pipeline, failed |-> TRUE])
     \/ \E a \in Artifacts :
          /\ _ml' = _ml
          /\ pipeline' = a
          /\ startup' = Some([ml |-> _ml, pipeline |-> a, failed |-> FALSE])
  /\ pc' = "idle"
  /\ UNCHANGED <<served, requestVars, callVars>>

----------------------------------------------------------------------------
(* app/model.py: predict_transaction *)

TxDescriptions == {None} \cup {Some(d) : d \in Cores}

TxAmounts ==
  { None, Some(StrVal(<<"2","9",",","2","1">>)), Some(StrVal(<<"a","b","c">>)), Some(StrVal(<<"n","a","n">>)),
    Some(FloatVal(Fin(2921, 0 - 2))) }

TxInputs ==
  [description : TxDescriptions, type : {Some(<<"C","A","R","D">>)},
   montant : TxAmounts, sens : {Some(<<"D","E","B","I","T">>)}]

\* the labels the classifier answers with
TxLabels ==
  { <<"A","L","I","M","E","N","T","A","T","I","O","N"," ","/"," ","R","E","S","T","A","U","R","A","N","T","S">>, <<"D","I","V","E","R","S">>, <<"A"," ","/"," ","B"," ","/"," ","C">>,
    <<"U","N","K","N","O","W","N">>, <<"U","N","K","N","O","W","N"," ","/"," ","X">>, <<>> }

\* the largest class probabilities the classifier reports
Probas == {Zero, Fin(3, 0 - 1), Fin(8, 0 - 1), Fin(1, 0)}

\* str(tx.get(key, "") or "")
TextField(o) == IF IsNone(o) THEN <<>> ELSE Get(o)

\* the web service calls predict_transaction
Request ==
  /\ pc = "idle"
  /\ served < MaxRequests
  /\ \E t \in TxInputs : tx' = Some(t)
  /\ pc' = "start"
  /\ UNCHANGED <<_ml, pipeline, loadAttempts, startup, served, rule_result,
                 X, label, proba, pred, result, ruleLookups, mlCalls, callVars>>

\* lines 27-33
RulesResult(rr) ==
  [category |-> rr[1], subcategory |-> Some(rr[2]), confidence |-> Fin(1, 0),
   method |-> "rules", rule_id |-> Some(rr[3])]

\* TierAfterRules without the early return
TierAfterRules_FallThrough(rr) == "ml_gate"

\* line 25: a match returns, no match goes on to the classifier
TierAfterRules(rr) == IF ~IsNone(rr) THEN "return" ELSE "ml_gate"

\* lines 22-33
RuleStep ==
  /\ pc = "start"
  /\ LET description == TextField(Get(tx).description)
         rr == predict_by_rules(Some(description))
     IN  /\ rule_result' = rr
         /\ result' = IF ~IsNone(rr) THEN Some(RulesResult(Get(rr))) ELSE None
         /\ pc' = TierAfterRules(rr)
  /\ ruleLookups' = ruleLookups + 1
  /\ UNCHANGED <<_ml, pipeline, loadAttempts, startup, served, tx,
                 X, label, proba, pred, mlCalls, callVars>>

\* ml_model.py 58-68: the feature row
Features(t) ==
  [Description |-> TextField(t.description), Type |-> TextField(t.type),
   Sens |-> TextField(t.sens), MontantNum |-> _parse_amount(t.montant)]

\* ml_model.py 72-82: the prediction built from the classifier's answer
MlPrediction(lbl, p) ==
  [category |-> split_label(lbl)[1], subcategory |-> split_label(lbl)[2],
   confidence |-> IF IsNone(p) THEN Zero ELSE Get(p)]

\* MlResult reporting an empty subcategory as absent
MlResult_NoneSub(p) ==
  [category |-> p.category,
   subcategory |-> IF p.subcategory = <<>> THEN None ELSE Some(p.subcategory),
   confidence |-> p.confidence, method |-> "ml", rule_id |-> None]

\* lines 39-45
MlResult(p) ==
  [category |-> p.category, subcategory |-> Some(p.subcategory),
   confidence |-> p.confidence, method |-> "ml", rule_id |-> None]

\* PredAccepted turning down a prediction of confidence below 0.5
PredAccepted_Threshold(p) ==
  ~IsNone(p) /\ ~FloatLess(Get(p).confidence, Fin(5, 0 - 1))

\* line 38
PredAccepted(p) == ~IsNone(p)

\* lines 35-45 with TxModel.predict: nothing is loaded and predict returns
\* None; or the classifier answers with a label, and a probability if it has
\* predict_proba; or a call into the classifier raises
MlStep ==
  /\ pc = "ml_gate"
  /\ _ml # "None"
  /\ mlCalls' = mlCalls + 1
  /\ \/ /\ pipeline = "None"
        /\ pred' = None
        /\ UNCHANGED <<X, label, proba, result>>
        /\ pc' = "fallback"
     \/ /\ pipeline # "None"
        /\ X' = Some(Features(Get(tx)))
        /\ \E lbl \in TxLabels :
             \E p \in IF pipeline = "proba" THEN {Some(q) : q \in Probas} ELSE {None} :
               /\ label' = Some(lbl)
               /\ proba' = p
               /\ pred' = Some(MlPrediction(lbl, p))
               /\ IF PredAccepted(Some(MlPrediction(lbl, p)))
                  THEN /\ result' = Some(MlResult(MlPrediction(lbl, p)))
                       /\ pc' = "return"
                  ELSE /\ result' = result
                       /\ pc' = "fallback"
     \/ /\ pipeline # "None"
        /\ X' = Some(Features(Get(tx)))
        /\ UNCHANGED <<label, proba, pred, result>>
        /\ pc' = "raised"
  /\ UNCHANGED <<_ml, pipeline, loadAttempts, startup, served, tx,
                 rule_result, ruleLookups, callVars>>

\* FallbackResult with an empty subcategory, as the classifier path has it
FallbackResult_EmptySub ==
  [category |-> <<"U","N","K","N","O","W","N">>, subcategory |-> Some(<<>>), confidence |-> Zero,
   method |-> "fallback", rule_id |-> None]

\* lines 47-53
FallbackResult ==
  [category |-> <<"U","N","K","N","O","W","N">>, subcategory |-> None, confidence |-> Zero,
   method |-> "fallback", rule_id |-> None]

\* lines 35 and 47-53: _ml is None, or pred was None
Fallback ==
  /\ \/ pc = "ml_gate" /\ _ml = "None"
     \/ pc = "fallback"
  /\ result' = Some(FallbackResult)
  /\ pc' = "return"
  /\ UNCHANGED <<_ml, pipeline, loadAttempts, startup, served, tx, rule_result,
                 X, label, proba, pred, ruleLookups, mlCalls, callVars>>

\* the request is over: the caller has the result or the exception, and the
\* locals are gone
Return ==
  /\ pc \in {"return", "raised"}
  /\ served' = served + 1
  /\ tx' = None
  /\ rule_result' = None
  /\ X' = None
  /\ label' = None
  /\ proba' = None
  /\ pred' = None
  /\ result' = None
  /\ ruleLookups' = 0
  /\ mlCalls' = 0
  /\ pc' = "idle"
  /\ UNCHANGED <<_ml, pipeline, loadAttempts, startup, callVars>>

Init == AppBoot /\ NoCall

Next == Load \/ Request \/ RuleStep \/ MlStep \/ Fallback \/ Return

Spec == Init /\ [][Next]_vars

----------------------------------------------------------------------------
(* Pure functions, one call each *)

RulesInit ==
  /\ AppBoot
  /\ \/ CallInit("normalize_description", NormalizeInputs)
     \/ CallInit("predict_by_rules", {None} \cup {Some(d) : d \in Descriptions})

RulesNext == Call_normalize_description \/ Call_predict_by_rules

SpecRules == RulesInit /\ [][RulesNext]_vars

AmountInit ==
  /\ AppBoot
  /\ \/ CallInit("_parse_amount", AmountInputs)
     \/ CallInit("parse_amount", AmountInputs)

AmountNext == Call__parse_amount \/ Call_parse_amount

SpecAmount == AmountInit /\ [][AmountNext]_vars

LabelInit ==
  /\ AppBoot
  /\ CallInit("split_label", LabelTexts)

LabelNext == Call_split_label

SpecLabel == LabelInit /\ [][LabelNext]_vars

----------------------------------------------------------------------------
(* Properties *)

\* the rules whose pattern is found in the normalized description d
MatchingRules(d) == {i \in 1..Len(RULES) : Search(RULES[i].pattern, d)}

RuleTriple(i) == <<RULES[i].category, RULES[i].subcategory, RULES[i].id>>

\* the normalized description of the current request
RequestText == normalize_description(Some(TextField(Get(tx).description)))

\* the request is past the rule lookup
PastRules == pc \in {"ml_gate", "fallback", "return", "raised"}

\* C1: rules override the classifier.  A request whose normalized
\* description is matched by some rule returns method "rules", confidence
\* exactly 1.0 and the category, subcategory and id of a matching rule,
\* without a call of the classifier adapter, whatever the load state; and the
\* rule lookup runs once per request, never again after the classifier path
\* is taken.
RulesOverrideClassifier ==
  /\ ruleLookups <= 1
  /\ PastRules => ruleLookups = 1
  /\ (PastRules /\ MatchingRules(RequestText) # {}) =>
       /\ pc = "return"
       /\ mlCalls = 0
       /\ ~IsNone(result)
       /\ Get(result).method = "rules"
       /\ Get(result).confidence = Fin(1, 0)
       /\ \E i \in MatchingRules(RequestText) :
            /\ Get(result).category = RULES[i].category
            /\ Get(result).subcategory = Some(RULES[i].subcategory)
            /\ Get(result).rule_id = Some(RULES[i].id)

\* a rule match is returned while a classifier with probabilities is loaded
RulesOverrideWitness ==
  /\ pc = "return"
  /\ _ml = "TxModel" /\ pipeline = "proba"
  /\ ~IsNone(result) /\ Get(result).method = "rules"
  /\ mlCalls = 0

\* C2: first match wins.  predict_by_rules returns the category, subcategory
\* and id of the rule of smallest index among the rules found in the
\* normalized description, whatever later rule matches too, and None exactly
\* when no rule matches.
FirstMatchWins ==
  (returned /\ fn = "predict_by_rules") =>
    LET hits == MatchingRules(normalize_description(arg))
    IN  /\ IsNone(ret) <=> hits = {}
        /\ hits # {} =>
             \E i \in hits :
               /\ \A h \in hits : i <= h
               /\ ret = Some(RuleTriple(i))

\* a description found by two rules of different categories got the first
FirstMatchWitness ==
  /\ returned /\ fn = "predict_by_rules"
  /\ LET hits == MatchingRules(normalize_description(arg))
     IN  \E i, k \in hits :
           /\ i < k
           /\ RULES[i].category # RULES[k].category
           /\ ret = Some(RuleTriple(i))

\* C3: the availability gate is decided once.  The load is attempted exactly
\* once, at startup and before any request; what it left behind (_ml and its
\* pipeline) is what every later state has; and after a failed load every
\* request completes without an exception and without a classifier call, its
\* result being of method "rules" or "fallback".
OneTimeAvailabilityGate ==
  /\ pc = "boot" =>
       /\ loadAttempts = 0 /\ IsNone(startup)
       /\ served = 0 /\ IsNone(tx)
  /\ pc # "boot" =>
       /\ loadAttempts = 1
       /\ ~IsNone(startup)
       /\ _ml = Get(startup).ml
       /\ pipeline = Get(startup).pipeline
       /\ Get(startup).failed =>
            /\ _ml = "None"
            /\ pc # "raised"
            /\ mlCalls = 0
            /\ ~IsNone(result) => Get(result).method \in {"rules", "fallback"}
            /\ pc = "return" => ~IsNone(result)

\* after a failed load, a second request returns the fallback
AvailabilityGateWitness ==
  /\ pc = "return"
  /\ served >= 1
  /\ ~IsNone(startup) /\ Get(startup).failed
  /\ ~IsNone(result) /\ Get(result).method = "fallback"

\* C4: no error outcome.  Whatever the classifier does, a request ends by
\* returning a result; no exception leaves predict_transaction.
NoErrorOutcome ==
  /\ pc # "raised"
  /\ pc = "return" => ~IsNone(result)

\* C5: fallback completeness.  A request whose description matches no rule,
\* with the adapter unavailable or returning no result, returns exactly
\* UNKNOWN, no subcategory, confidence 0.0, method "fallback", no rule_id.
FallbackCompleteness ==
  (/\ pc = "return"
   /\ MatchingRules(RequestText) = {}
   /\ \/ _ml = "None"
      \/ mlCalls = 1 /\ IsNone(pred)) =>
    result = Some([category |-> <<"U","N","K","N","O","W","N">>, subcategory |-> None,
                   confidence |-> Zero, method |-> "fallback",
                   rule_id |-> None])

\* no rule matched, the load had failed, and the fallback is returned
FallbackWitness ==
  /\ pc = "return"
  /\ MatchingRules(RequestText) = {}
  /\ _ml = "None"
  /\ ~IsNone(result) /\ Get(result).method = "fallback"

InUnitInterval(v) ==
  IsFinite(v) /\ ~FloatLess(v, Zero) /\ ~FloatLess(Fin(1, 0), v)

LiteralRules ==
  {i \in 1..Len(RULES) :
     RULES[i].pattern.head = "search" /\ RULES[i].pattern.tail = "none"}

\* d spells out the text s up to letter case, leading and trailing
\* whitespace and the length of whitespace runs
SpellsOut(d, s) == normalize_description(d) = normalize_description(Some(s))

\* C8: rule matching is insensitive to letter case and whitespace layout.  A
\* description spelling out the literal text of a rule's pattern up to case
\* and whitespace gets a rule match, not None, and its result is the one of
\* its normalized form.
CaseAndLayoutInsensitive ==
  (returned /\ fn = "predict_by_rules") =>
    /\ \A i \in LiteralRules :
         SpellsOut(arg, RULES[i].pattern.lit) => ~IsNone(ret)
    /\ ret = predict_by_rules(Some(normalize_description(arg)))

Contains(s, sep) == \E i \in 1..Len(s) : LitAt(sep, s, i)

\* C9: label decomposition.  A label containing " / " is cut at the first
\* one: the category holds no separator and category + " / " + subcategory
\* is the label; a label without separator is the category, with the empty
\* subcategory.
LabelDecomposition ==
  (returned /\ fn = "split_label") =>
    LET category    == Get(ret)[1]
        subcategory == Get(ret)[2]
    IN  IF Contains(arg, Separator)
        THEN /\ ~Contains(category, Separator)
             /\ category \o Separator \o subcategory = arg
        ELSE category = arg /\ subcategory = <<>>

\* a label with two separators is cut at the first
LabelDecompositionWitness ==
  /\ returned /\ fn = "split_label"
  /\ arg = <<"A"," ","/"," ","B"," ","/"," ","C">>
  /\ ret = Some(<<<<"A">>, <<"B"," ","/"," ","C">>>>)

\* x is a text that float() does not take
FailsNumericParsing(x) ==
  /\ ~IsNone(x)
  /\ Get(x).kind = "str"
  /\ IsNone(float(replace(replace(strip(Get(x).s), " ", <<>>), ",", <<".">>)))

\* C10: the amount parser is total and yields finite numbers.  Every input
\* gets a finite number; an absent input and a text that fails numeric
\* parsing get 0.0; a comma is the decimal separator, "29,21" giving 29.21.
AmountParserFinite ==
  (returned /\ fn \in {"_parse_amount", "parse_amount"}) =>
    /\ ~IsNone(ret)
    /\ IsFinite(Get(ret))
    /\ IsNone(arg) => Get(ret) = Zero
    /\ FailsNumericParsing(arg) => Get(ret) = Zero
    /\ arg = Some(StrVal(<<"2","9",",","2","1">>)) => Get(ret) = Fin(2921, 0 - 2)

\* str.islower on one character
IsLower(c) ==
  \/ c \in CaselessLower
  \/ \E i \in 1..Len(LowerLetters) : c = LowerLetters[i]

\* s has no whitespace at either end, and its only whitespace is single
\* spaces
SingleSpaced(s) ==
  /\ s # <<>> => ~IsSpace(s[1]) /\ ~IsSpace(s[Len(s)])
  /\ \A i \in 1..Len(s) :
       IsSpace(s[i]) => s[i] = " " /\ (i < Len(s) => ~IsSpace(s[i + 1]))

\* C11, as stated: normalize_description is total and idempotent.  For every
\* input, an absent one included, it returns a string; the string has no
\* leading or trailing whitespace, no lowercase letter, no whitespace other
\* than single spaces between tokens, and normalizing it again changes nothing.
NormalizeNoLowercase ==
  returned /\ fn = "normalize_description" =>
    /\ ~IsNone(ret)
    /\ SingleSpaced(Get(ret))
    /\ \A i \in 1..Len(Get(ret)) : ~IsLower(Get(ret)[i])
    /\ normalize_description(ret) = Get(ret)

\* C11, amended: normalize_description is total and idempotent.  For every
\* input, an absent one included, it returns a string; the string has no
\* leading or trailing whitespace, no letter that upper-casing would change,
\* no whitespace other than single spaces between tokens, and normalizing it
\* again changes nothing.  A lowercase letter without an uppercase form stays.
NormalizeCanonical ==
  returned /\ fn = "normalize_description" =>
    /\ ~IsNone(ret)
    /\ SingleSpaced(Get(ret))
    /\ upper(Get(ret)) = Get(ret)
    /\ \A i \in 1..Len(Get(ret)) :
         \A j \in 1..Len(LowerLetters) : Get(ret)[i] # LowerLetters[j]
    /\ normalize_description(ret) = Get(ret)

\* a text with whitespace at both ends, a run of whitespace inside and a
\* lowercase letter has been normalized to a non-empty string
NormalizeWitness ==
  /\ returned /\ fn = "normalize_description"
  /\ ~IsNone(arg)
  /\ Len(Get(arg)) >= 3
  /\ IsSpace(Get(arg)[1]) /\ IsSpace(Get(arg)[Len(Get(arg))])
  /\ \E i \in 2..Len(Get(arg)) - 2 :
       /\ ~IsSpace(Get(arg)[i - 1])
       /\ IsSpace(Get(arg)[i]) /\ IsSpace(Get(arg)[i + 1])
       /\ \E k \in i + 2..Len(Get(arg)) : ~IsSpace(Get(arg)[k])
  /\ \E i \in 1..Len(Get(arg)) : upper(<<Get(arg)[i]>>) # <<Get(arg)[i]>>
  /\ Get(ret) # <<>>
  /\ Get(ret) # Get(arg)

\* C12: UNKNOWN is reserved for the unclassified outcome.  In every result
\* of predict_transaction the category is UNKNOWN exactly when the method is
\* "fallback": neither a rule match nor a classifier label gives a result
\* whose category is UNKNOWN.
UnknownReserved ==
  ~IsNone(result) =>
    (Get(result).category = <<"U","N","K","N","O","W","N">> <=> Get(result).method = "fallback")

=============================================================================
